---- MODULE Spec2Model ----
(***************************************************************************)
(* Model of j1939_firmware_sender.py: the J1939 transport-protocol sender  *)
(* (J1939FirmwareSender) and the connect / send_firmware / disconnect      *)
(* block of main().                                                        *)
(*                                                                         *)
(* Conventions                                                             *)
(*  - A Python int used as a bit field (a CAN identifier) is the set of    *)
(*    positions of its 1 bits: | is \cup, & is \cap, << k adds k to every  *)
(*    position, & ~m is set difference.  Bits and Val convert.             *)
(*  - Time is counted in ticks of 0.1 s, the timeout of one bus.recv().    *)
(*  - rxq is the receive buffer of the socket: the frames the peer has put *)
(*    on the bus that recv() has not returned yet.                         *)
(*  - trace is a history of bus events: every frame sent, and every frame  *)
(*    received that a wait loop reacted to (returned or raised on).        *)
(***************************************************************************)
EXTENDS Integers, Sequences, FiniteSets, TLC

VARIABLES
    pc,             \* position of main / send_firmware
    bus,            \* self.bus: "none" or "open"
    opens,          \* number of can.Bus objects constructed
    shutdowns,      \* number of bus.shutdown() calls
    file_exists,    \* firmware_path.exists()
    file_bytes,     \* content of the firmware file
    firmware_size,  \* local of send_firmware
    num_packets,    \* local of send_firmware
    seq_num,        \* local of send_firmware
    offset,         \* local of send_firmware
    elapsed,        \* time.time() - start_time of the running wait loop
    got_frame,      \* the latest wait loop has consumed and dropped a frame
    rxq,            \* frames waiting in the socket's receive buffer
    trace,          \* history: frames sent, frames reacted to
    retval,         \* return value of send_firmware: "none", "True", "False"
    outcome,        \* the message send_firmware printed last
    exc,            \* exception that left the try block, "none" if none
    exitcode,       \* value main returns, -1 while it runs
    self_priority,  \* self.priority
    self_src_addr,  \* self.src_addr
    self_dst_addr,  \* self.dst_addr
    arg_pgn,        \* argument of the build_can_id call under study
    can_id          \* what that call returned, {} before it

vars == <<pc, bus, opens, shutdowns, file_exists, file_bytes, firmware_size, num_packets,
          seq_num, offset, elapsed, got_frame, rxq, trace, retval, outcome, exc,
          exitcode, self_priority, self_src_addr, self_dst_addr, arg_pgn, can_id>>

\* the sender's addressing and the build_can_id call studied on its own
idVars == <<self_priority, self_src_addr, self_dst_addr, arg_pgn, can_id>>

----------------------------------------------------------------------------
(* Bounds of the model *)

MaxLen == 8
MaxQueue == 1

----------------------------------------------------------------------------
(* Protocol definitions, lines 20-34 *)

J1939_TP_CM_RTS == 16
J1939_TP_CM_CTS == 17
J1939_TP_CM_EOM == 19
J1939_TP_CM_BAM == 32
J1939_TP_CM_ABORT == 255

J1939_PGN_TP_CM == 60416
J1939_PGN_TP_DT == 60160
J1939_PGN_FIRMWARE_UPDATE == 61184

DEFAULT_SRC_ADDR == 0
DEFAULT_DST_ADDR == 128
DEFAULT_PRIORITY == 6

bytes_per_packet == 7
PAD_BYTE == 255
RTS_MAX_PACKETS == 255

\* timeout = 5.0 and timeout = 10.0 seconds, in ticks of recv(timeout=0.1)
CTS_TIMEOUT == 50
EOM_TIMEOUT == 100

----------------------------------------------------------------------------
(* Python integers as bit sets *)

Pow2(k) == 2 ^ k

Bits(n) == { i \in 0..30 : (n \div Pow2(i)) % 2 = 1 }

Val(b) ==
    LET sum[i \in 0..32] ==
            IF i = 0 THEN 0
            ELSE sum[i - 1] + (IF (i - 1) \in b THEN Pow2(i - 1) ELSE 0)
    IN  sum[32]

Shl(b, k) == { i + k : i \in b }
Shr(b, k) == { i - k : i \in { j \in b : j >= k } }

\* x & m, x >> k on non-negative ints; the operand x is bound to its value
\* first, as Python evaluates an operand once
And(x, m) == CHOOSE r \in { Val(Bits(v) \cap Bits(m)) : v \in {x} } : TRUE
ShrInt(x, k) == CHOOSE r \in { Val(Shr(Bits(v), k)) : v \in {x} } : TRUE

\* bytearray([...]) accepts only 0..255
IsByte(x) == x >= 0 /\ x <= 255

Min(a, b) == IF a < b THEN a ELSE b

----------------------------------------------------------------------------
(* build_can_id, lines 60-81 *)

\* variant: the PDU1 / PDU2 boundary is drawn one too high
build_can_id_Threshold(priority, src_addr, dst_addr, pgn) ==
    LET id0 == {31}
        id1 == id0 \cup Shl(Bits(priority) \cap Bits(7), 26)
        id2 == id1 \cup Shl(Bits(pgn) \cap Bits(262143), 8)
        id3 == id2 \cup (Bits(src_addr) \cap Bits(255))
        pf  == Val(Shr(Bits(pgn), 8) \cap Bits(255))
    IN  IF pf <= 240
        THEN (id3 \ Shl(Bits(255), 8)) \cup Shl(Bits(dst_addr) \cap Bits(255), 8)
        ELSE id3

build_can_id(priority, src_addr, dst_addr, pgn) ==
    LET id0 == {31}
        id1 == id0 \cup Shl(Bits(priority) \cap Bits(7), 26)
        id2 == id1 \cup Shl(Bits(pgn) \cap Bits(262143), 8)
        id3 == id2 \cup (Bits(src_addr) \cap Bits(255))
        pf  == Val(Shr(Bits(pgn), 8) \cap Bits(255))
    IN  IF pf < 240
        THEN (id3 \ Shl(Bits(255), 8)) \cup Shl(Bits(dst_addr) \cap Bits(255), 8)
        ELSE id3

\* build_can_id reads the sender's priority and addresses (lines 68, 70, 78)
CanId(pgn) == build_can_id(self_priority, self_src_addr, self_dst_addr, pgn)

----------------------------------------------------------------------------
(* Frames and payloads the model draws from *)

Byte == 0..255

\* firmware image of n bytes; byte 1 is 0xFF, the value of the filler
Gen(n) == [i \in 1..n |-> (218 + 37 * i) % 256]

\* sizes: none, one byte, one full chunk less or more a byte (MaxLen - 1 and
\* MaxLen), three chunks, the largest that fits one session, one byte more
PayloadLens == {0, 1, MaxLen - 1, MaxLen, 20, 255 * 7, 255 * 7 + 1}

Payloads == { Gen(n) : n \in PayloadLens }

Fill(s) == s \o [i \in 1..(8 - Len(s)) |-> 255]

\* frames the peer (or any other node: can_filters=None) may put on the bus
PeerFrames ==
    { Fill(<<J1939_TP_CM_CTS, 1, 1>>),       \* clear-to-send, window of 1 packet
      Fill(<<J1939_TP_CM_CTS, 0, 0>>),       \* clear-to-send granting nothing
      <<J1939_TP_CM_CTS, 1>>,                \* clear-to-send, 2 data bytes
      Fill(<<J1939_TP_CM_EOM, 20, 0, 3>>),   \* completion acknowledgment
      <<J1939_TP_CM_EOM, 0, 0>>,             \* completion ack, 3 data bytes
      Fill(<<J1939_TP_CM_ABORT, 3>>),        \* abort, reason 3
      Fill(<<J1939_TP_CM_BAM, 9, 0, 2>>),    \* unrelated control frame
      << >> }                                \* frame with no data

TxEvent(id, data) == [dir |-> "tx", id |-> id, data |-> data]
RxEvent(data) == [dir |-> "rx", id |-> {}, data |-> data]

----------------------------------------------------------------------------
(* Pure parts of send_firmware, send_rts, send_data_packet, wait_for_eom *)

\* variant: an empty file is turned away like a missing one
PayloadRejected_EmptyToo(exists, bytes) == ~exists \/ Len(bytes) = 0

\* line 214
PayloadRejected(exists, bytes) == ~exists

\* variant: the chunk count is rounded down
NumPackets_Floor(size) == size \div bytes_per_packet

\* variant: the packet count is rounded up once too often
NumPackets_RoundsUp(size) == size \div bytes_per_packet + 1

\* line 224
NumPackets(size) == (size + bytes_per_packet - 1) \div bytes_per_packet

\* variant: the packet count is masked to a byte like the size is
RtsList_Truncates(data_size, n) ==
    << J1939_TP_CM_RTS,
       And(data_size, 255),
       And(ShrInt(data_size, 8), 255),
       And(n, 255),
       RTS_MAX_PACKETS,
       And(J1939_PGN_FIRMWARE_UPDATE, 255),
       And(ShrInt(J1939_PGN_FIRMWARE_UPDATE, 8), 255),
       And(ShrInt(J1939_PGN_FIRMWARE_UPDATE, 16), 255) >>

\* lines 116-125: the list handed to bytearray()
RtsList(data_size, n) ==
    << J1939_TP_CM_RTS,
       And(data_size, 255),
       And(ShrInt(data_size, 8), 255),
       n,
       RTS_MAX_PACKETS,
       And(J1939_PGN_FIRMWARE_UPDATE, 255),
       And(ShrInt(J1939_PGN_FIRMWARE_UPDATE, 8), 255),
       And(ShrInt(J1939_PGN_FIRMWARE_UPDATE, 16), 255) >>

\* bytearray(list) raises ValueError unless every item is in range(0, 256)
BytearrayOk(list) == \A i \in 1..Len(list) : IsByte(list[i])

\* variant: start_time is taken again on every iteration, so the elapsed
\* time the loop sees never grows
Later_Stuck(e, d) == e

\* lines 138 and 188: time.time() - start_time, d ticks after it was e
Later(e, d) == e + d

\* lines 138, 188: the loop conditions of the two waits
CtsWaitCond(e) == e < CTS_TIMEOUT
EomWaitCond(e) == e < EOM_TIMEOUT

\* variant: send_rts does not test for the abort command
CtsReaction_AbortIgnored(data) ==
    IF Len(data) >= 1 /\ data[1] = J1939_TP_CM_CTS
    THEN IF Len(data) >= 3 THEN "True" ELSE "IndexError"
    ELSE "ignore"

\* variant: a clear-to-send that grants no packet is waited out
CtsReaction_HonoursWindow(data) ==
    IF Len(data) >= 1
    THEN IF data[1] = J1939_TP_CM_CTS
         THEN IF Len(data) >= 3
              THEN (IF data[2] = 0 THEN "ignore" ELSE "True")
              ELSE "IndexError"
         ELSE IF data[1] = J1939_TP_CM_ABORT THEN "False" ELSE "ignore"
    ELSE "ignore"

\* lines 140-148: what send_rts does with a received frame
CtsReaction(data) ==
    IF Len(data) >= 1
    THEN IF data[1] = J1939_TP_CM_CTS
         THEN IF Len(data) >= 3 THEN "True" ELSE "IndexError"
         ELSE IF data[1] = J1939_TP_CM_ABORT THEN "False" ELSE "ignore"
    ELSE "ignore"

\* variant: wait_for_eom raises on an abort instead of returning False
EomReaction_AbortRaises(data) ==
    IF Len(data) >= 1
    THEN IF data[1] = J1939_TP_CM_EOM
         THEN IF Len(data) >= 4 THEN "True" ELSE "IndexError"
         ELSE IF data[1] = J1939_TP_CM_ABORT THEN "ProtocolAbort" ELSE "ignore"
    ELSE "ignore"

\* variant: wait_for_eom takes every frame that is not the acknowledgment
\* for an abort
EomReaction_UnknownAborts(data) ==
    IF Len(data) >= 1
    THEN IF data[1] = J1939_TP_CM_EOM
         THEN IF Len(data) >= 4 THEN "True" ELSE "IndexError"
         ELSE "False"
    ELSE "ignore"

\* lines 190-198: what wait_for_eom does with a received frame
EomReaction(data) ==
    IF Len(data) >= 1
    THEN IF data[1] = J1939_TP_CM_EOM
         THEN IF Len(data) >= 4 THEN "True" ELSE "IndexError"
         ELSE IF data[1] = J1939_TP_CM_ABORT THEN "False" ELSE "ignore"
    ELSE "ignore"

\* variants: a wait that falls out of its loop returns True
CtsTimeoutResult_True == "True"
EomTimeoutResult_True == "True"

\* lines 150-151, 200-201: the value returned when a wait's loop ends
CtsTimeoutResult == "False"
EomTimeoutResult == "False"

\* variant: the sequence number is stepped twice per packet
NextSeqNum_Skips(s) == s + 2

\* line 245, 260
InitialSeqNum == 1
NextSeqNum(s) == s + 1

\* variant: the loop stops one packet early
TransferLoopCond_StopsEarly(off, size) == off + bytes_per_packet < size

\* variant: the transfer loop stops when an abort frame waits in the buffer
TransferLoopCond_ChecksAbort(off, size) ==
    /\ off < size
    /\ ~(rxq # << >> /\ Len(Head(rxq)) >= 1 /\ Head(rxq)[1] = J1939_TP_CM_ABORT)

\* line 251
TransferLoopCond(off, size) == off < size

\* variant: a chunk holds one byte less than a frame has room for
ChunkEnd_SixBytes(off, size) == Min(off + bytes_per_packet - 1, size)

\* lines 253-254
ChunkEnd(off, size) == Min(off + bytes_per_packet, size)
Chunk(data, off, end) == SubSeq(data, off + 1, end)

\* lines 164-168: [seq_num] + data, padded to 8 bytes
RECURSIVE Pad(_)
Pad(payload) == IF Len(payload) < 8 THEN Pad(Append(payload, PAD_BYTE)) ELSE payload

\* variant: the last frame is sent short, without padding
DataPacket_Unpadded(seq, chunk) == <<seq>> \o chunk

DataPacket(seq, chunk) == Pad(<<seq>> \o chunk)

\* variant: disconnect() shuts the bus down but keeps the handle
BusAfterDisconnect_Keeps(b) == b

\* lines 97-99
BusAfterDisconnect(b) == "none"
ShutdownsAfterDisconnect(b, n) == IF b # "none" THEN n + 1 ELSE n

----------------------------------------------------------------------------
(* State after main() has constructed the sender (lines 380-386) *)

Init ==
    /\ pc = "connect"
    /\ bus = "none"
    /\ opens = 0
    /\ shutdowns = 0
    /\ file_exists \in BOOLEAN
    /\ file_bytes \in (IF file_exists THEN Payloads ELSE {<< >>})
    /\ firmware_size = 0
    /\ num_packets = 0
    /\ seq_num = 0
    /\ offset = 0
    /\ elapsed = 0
    /\ got_frame = FALSE
    /\ rxq = << >>
    /\ trace = << >>
    /\ retval = "none"
    /\ outcome = "none"
    /\ exc = "none"
    /\ exitcode = -1
    /\ self_priority = DEFAULT_PRIORITY
    /\ self_src_addr = DEFAULT_SRC_ADDR
    /\ self_dst_addr = DEFAULT_DST_ADDR
    /\ arg_pgn = 0
    /\ can_id = {}

\* lines 95-100, 403-404: the finally clause runs disconnect(), main returns
Finally ==
    /\ bus' = BusAfterDisconnect(bus)
    /\ shutdowns' = ShutdownsAfterDisconnect(bus, shutdowns)
    /\ pc' = "exit"

\* send_firmware returns v after printing msg; line 391 turns it into the exit
\* code, then the finally clause
Return(v, msg) ==
    /\ retval' = v
    /\ outcome' = msg
    /\ exitcode' = (IF v = "True" THEN 0 ELSE 1)
    /\ elapsed' = 0
    /\ UNCHANGED <<exc, got_frame>>
    /\ Finally

\* an exception leaves the try block: lines 393-401 return 1, then the finally
\* clause
Raise(e) ==
    /\ exc' = e
    /\ exitcode' = 1
    /\ elapsed' = 0
    /\ UNCHANGED <<retval, outcome, got_frame>>
    /\ Finally

\* the session goes on to position p
Goto(p) ==
    /\ pc' = p
    /\ UNCHANGED <<bus, shutdowns, retval, outcome, exc, exitcode>>

\* lines 83-93, 389
Connect ==
    /\ pc = "connect"
    /\ \E ok \in BOOLEAN :
         IF ok
         THEN /\ bus' = "open"
              /\ opens' = opens + 1
              /\ pc' = "send_firmware"
              /\ UNCHANGED <<shutdowns, elapsed, got_frame, retval, outcome, exc,
                             exitcode>>
         ELSE /\ Raise("RuntimeError")
              /\ UNCHANGED opens
    /\ UNCHANGED <<file_exists, file_bytes, firmware_size, num_packets, seq_num,
                   offset, rxq, trace>>
    /\ UNCHANGED idVars

\* lines 214-224
SendFirmwareEnter ==
    /\ pc = "send_firmware"
    /\ IF PayloadRejected(file_exists, file_bytes)
       THEN /\ Return("False", "not found")
            /\ UNCHANGED <<firmware_size, num_packets>>
       ELSE \E readOk \in BOOLEAN :
              IF readOk
              THEN /\ firmware_size' = Len(file_bytes)
                   /\ num_packets' = NumPackets(Len(file_bytes))
                   /\ Goto("send_rts")
                   /\ UNCHANGED <<elapsed, got_frame>>
              ELSE /\ Raise("OSError")
                   /\ UNCHANGED <<firmware_size, num_packets>>
    /\ UNCHANGED <<opens, file_exists, file_bytes, seq_num, offset, rxq, trace>>
    /\ UNCHANGED idVars

\* lines 113-136: build the connection request, send it, start the wait
SendRts ==
    /\ pc = "send_rts"
    /\ \E list \in {RtsList(firmware_size, num_packets)} :
         IF ~BytearrayOk(list)
         THEN /\ Raise("ValueError")
              /\ trace' = trace
         ELSE \E sendOk \in BOOLEAN :
                IF sendOk
                THEN /\ trace' = Append(trace, TxEvent(CanId(J1939_PGN_TP_CM), list))
                     /\ Goto("wait_cts")
                     /\ elapsed' = 0
                     /\ got_frame' = FALSE
                ELSE /\ Raise("CanError")
                     /\ trace' = trace
    /\ UNCHANGED <<opens, file_exists, file_bytes, firmware_size, num_packets, seq_num,
                   offset, rxq>>
    /\ UNCHANGED idVars

\* lines 138-148 and 241-249: one iteration of the clear-to-send wait;
\* recv(timeout=0.1) returns the oldest buffered frame, or None after one tick
CtsPoll ==
    /\ pc = "wait_cts"
    /\ CtsWaitCond(elapsed)
    /\ IF rxq = << >>
       THEN /\ elapsed' = Later(elapsed, 1)
            /\ Goto("wait_cts")
            /\ UNCHANGED <<got_frame, rxq, trace, seq_num, offset>>
       ELSE \E d \in {0, 1} :
              LET data == Head(rxq)
                  r == CtsReaction(data)
              IN  /\ rxq' = Tail(rxq)
                  /\ CASE r = "ignore" ->
                            /\ elapsed' = Later(elapsed, d)
                            /\ got_frame' = TRUE
                            /\ Goto("wait_cts")
                            /\ UNCHANGED <<trace, seq_num, offset>>
                       [] r = "True" ->
                            /\ trace' = Append(trace, RxEvent(data))
                            /\ Goto("transfer")
                            /\ seq_num' = InitialSeqNum
                            /\ offset' = 0
                            /\ elapsed' = 0
                            /\ got_frame' = got_frame
                       [] r = "False" ->
                            /\ trace' = Append(trace, RxEvent(data))
                            /\ Return("False", "abort")
                            /\ UNCHANGED <<seq_num, offset>>
                       [] OTHER ->
                            /\ trace' = Append(trace, RxEvent(data))
                            /\ Raise(r)
                            /\ UNCHANGED <<seq_num, offset>>
    /\ UNCHANGED <<opens, file_exists, file_bytes, firmware_size, num_packets>>
    /\ UNCHANGED idVars

\* variant: a timed-out wait sends the connection request again
CtsTimeout_Retries ==
    /\ pc = "wait_cts"
    /\ ~CtsWaitCond(elapsed)
    /\ Goto("send_rts")
    /\ elapsed' = 0
    /\ UNCHANGED <<opens, file_exists, file_bytes, firmware_size, num_packets, rxq,
                   trace, seq_num, offset, got_frame>>
    /\ UNCHANGED idVars

\* lines 138, 150-151, 237-238: the deadline has passed
CtsTimeout ==
    /\ pc = "wait_cts"
    /\ ~CtsWaitCond(elapsed)
    /\ IF CtsTimeoutResult = "True"
       THEN /\ pc' = "transfer"
            /\ seq_num' = InitialSeqNum
            /\ offset' = 0
            /\ elapsed' = 0
            /\ outcome' = "timeout"
            /\ UNCHANGED <<bus, shutdowns, retval, exc, exitcode, got_frame>>
       ELSE /\ Return(CtsTimeoutResult, "timeout")
            /\ UNCHANGED <<seq_num, offset>>
    /\ UNCHANGED <<opens, file_exists, file_bytes, firmware_size, num_packets, rxq,
                   trace>>
    /\ UNCHANGED idVars

\* lines 251-272: one iteration of the transfer loop
SendChunk ==
    /\ pc = "transfer"
    /\ TransferLoopCond(offset, firmware_size)
    /\ LET end == ChunkEnd(offset, firmware_size)
           chunk == Chunk(file_bytes, offset, end)
       IN  IF ~IsByte(seq_num)
           THEN /\ Raise("ValueError")
                /\ UNCHANGED <<trace, seq_num, offset>>
           ELSE \E sendOk \in BOOLEAN :
                  IF sendOk
                  THEN /\ trace' = Append(trace, TxEvent(CanId(J1939_PGN_TP_DT),
                                                         DataPacket(seq_num, chunk)))
                       /\ offset' = end
                       /\ seq_num' = NextSeqNum(seq_num)
                       /\ IF firmware_size = 0      \* line 263: // firmware_size
                          THEN Raise("ZeroDivisionError")
                          ELSE /\ Goto("transfer")
                               /\ UNCHANGED <<elapsed, got_frame>>
                  ELSE /\ Raise("CanError")
                       /\ UNCHANGED <<trace, seq_num, offset>>
    /\ UNCHANGED <<opens, file_exists, file_bytes, firmware_size, num_packets, rxq>>
    /\ UNCHANGED idVars

\* lines 251, 274-283, 186: the loop ends, the completion wait starts
TransferDone ==
    /\ pc = "transfer"
    /\ ~TransferLoopCond(offset, firmware_size)
    /\ Goto("wait_eom")
    /\ elapsed' = 0
    /\ got_frame' = FALSE
    /\ UNCHANGED <<opens, file_exists, file_bytes, firmware_size, num_packets, seq_num,
                   offset, rxq, trace>>
    /\ UNCHANGED idVars

\* lines 188-198, 283-291: one iteration of the completion wait
EomPoll ==
    /\ pc = "wait_eom"
    /\ EomWaitCond(elapsed)
    /\ IF rxq = << >>
       THEN /\ elapsed' = Later(elapsed, 1)
            /\ Goto("wait_eom")
            /\ UNCHANGED <<got_frame, rxq, trace>>
       ELSE \E d \in {0, 1} :
              LET data == Head(rxq)
                  r == EomReaction(data)
              IN  /\ rxq' = Tail(rxq)
                  /\ CASE r = "ignore" ->
                            /\ elapsed' = Later(elapsed, d)
                            /\ got_frame' = TRUE
                            /\ Goto("wait_eom")
                            /\ trace' = trace
                       [] r = "True" ->
                            /\ trace' = Append(trace, RxEvent(data))
                            /\ Return("True", "success")
                       [] r = "False" ->
                            /\ trace' = Append(trace, RxEvent(data))
                            /\ Return("False", "abort")
                       [] OTHER ->
                            /\ trace' = Append(trace, RxEvent(data))
                            /\ Raise(r)
    /\ UNCHANGED <<opens, file_exists, file_bytes, firmware_size, num_packets, seq_num,
                   offset>>
    /\ UNCHANGED idVars

\* lines 188, 200-201, 289-291: the deadline has passed
EomTimeout ==
    /\ pc = "wait_eom"
    /\ ~EomWaitCond(elapsed)
    /\ Return(EomTimeoutResult, "timeout")
    /\ UNCHANGED <<opens, file_exists, file_bytes, firmware_size, num_packets, seq_num,
                   offset, rxq, trace>>
    /\ UNCHANGED idVars

\* lines 393-395: Ctrl-C anywhere inside the try block
Interrupt ==
    /\ pc \in {"connect", "send_firmware", "send_rts", "wait_cts", "transfer", "wait_eom"}
    /\ Raise("KeyboardInterrupt")
    /\ UNCHANGED <<opens, file_exists, file_bytes, firmware_size, num_packets, seq_num,
                   offset, rxq, trace>>
    /\ UNCHANGED idVars

\* the environment: a node puts a frame on the bus while the socket is open
PeerSend ==
    /\ bus = "open"
    /\ Len(rxq) < MaxQueue
    /\ \E f \in PeerFrames : rxq' = Append(rxq, f)
    /\ UNCHANGED <<pc, bus, opens, shutdowns, file_exists, file_bytes, firmware_size,
                   num_packets, seq_num, offset, elapsed, got_frame, trace, retval,
                   outcome, exc, exitcode>>
    /\ UNCHANGED idVars

\* a step of the program, as opposed to one of the bus
Program ==
    \/ Connect
    \/ SendFirmwareEnter
    \/ SendRts
    \/ CtsPoll
    \/ CtsTimeout
    \/ SendChunk
    \/ TransferDone
    \/ EomPoll
    \/ EomTimeout
    \/ Interrupt

Next == Program \/ PeerSend

Spec == Init /\ [][Next]_vars

\* the clock of the wait loops moves on: a poll either sees a later time or
\* leaves the loop (time.time() is read on every iteration, lines 138, 188)
TimeAdvances == (CtsPoll \/ EomPoll) /\ (elapsed' > elapsed \/ pc' # pc)

\* the interpreter keeps running main, and wall-clock time keeps advancing
\* The fair runs take every payload but the 255-chunk one, whose transfer
\* loop differs from the 3-chunk one in length only.
FairInit == Init /\ Len(file_bytes) # RTS_MAX_PACKETS * bytes_per_packet

FairSpec == FairInit /\ [][Next]_vars /\ WF_vars(Program) /\ WF_vars(TimeAdvances)

----------------------------------------------------------------------------
(* build_can_id on its own: a sender constructed with any priority and      *)
(* addresses (lines 40-42) is asked for the identifier of a group number.   *)

Priorities == 0..7
Addresses == {0, 1, 85, 128, 170, 254, 255}
\* PDU1 and PDU2 group numbers, on both sides of the PDU format 240
GroupNumbers == {0, 60160, 60416, 61184, 61439, 61444, 65260, 126720, 262143}

IdInit ==
    /\ pc = "build_can_id"
    /\ bus = "none"
    /\ opens = 0
    /\ shutdowns = 0
    /\ file_exists = FALSE
    /\ file_bytes = << >>
    /\ firmware_size = 0
    /\ num_packets = 0
    /\ seq_num = 0
    /\ offset = 0
    /\ elapsed = 0
    /\ got_frame = FALSE
    /\ rxq = << >>
    /\ trace = << >>
    /\ retval = "none"
    /\ outcome = "none"
    /\ exc = "none"
    /\ exitcode = -1
    /\ self_priority \in Priorities
    /\ self_src_addr \in Addresses
    /\ self_dst_addr \in Addresses
    /\ arg_pgn \in GroupNumbers
    /\ can_id = {}

\* lines 60-81: one call of build_can_id
BuildCanId ==
    /\ pc = "build_can_id"
    /\ can_id' = CanId(arg_pgn)
    /\ pc' = "id_built"
    /\ UNCHANGED <<bus, opens, shutdowns, file_exists, file_bytes, firmware_size,
                   num_packets, seq_num, offset, elapsed, got_frame, rxq, trace,
                   retval, outcome, exc, exitcode, self_priority, self_src_addr,
                   self_dst_addr, arg_pgn>>

IdNext == BuildCanId

IdSpec == IdInit /\ [][IdNext]_vars

----------------------------------------------------------------------------
(* Reading the history *)

\* PDU format byte of an identifier, bits 16-23: 0xEC is the connection-
\* management group, 0xEB the data-transfer group
PfField == 16..23
PfBitsCM == Shl(Bits(236), 16)
PfBitsDT == Shl(Bits(235), 16)

IsSent(e) == e.dir = "tx"
IsRts(e) == e.dir = "tx" /\ e.id \cap PfField = PfBitsCM /\ e.data[1] = 16
IsDt(e) == e.dir = "tx" /\ e.id \cap PfField = PfBitsDT
IsRxCmd(e, cmd) == e.dir = "rx" /\ Len(e.data) >= 1 /\ e.data[1] = cmd

DtFrames == SelectSeq(trace, IsDt)
DtCount == Len(DtFrames)
SentCount == Len(SelectSeq(trace, IsSent))

\* ceil(n / 7), by its definition
CeilDiv7(n) == CHOOSE k \in 0..n : 7 * k >= n /\ (k = 0 \/ 7 * (k - 1) < n)

\* this step takes the oldest frame out of the receive buffer
Consumes == rxq # << >> /\ rxq' = Tail(rxq)
HeadIs(cmd) == rxq # << >> /\ Len(Head(rxq)) >= 1 /\ Head(rxq)[1] = cmd

----------------------------------------------------------------------------
(* C1: send_firmware returns True only after, in this order, the connection *)
(* request was sent, a clear-to-send was received, all ceil(n/7) data       *)
(* frames were sent and a completion acknowledgment was received; every     *)
(* other finished run reports failure (False or an exception, exit code 1). *)
C1_SuccessOnlyAfterFullRoundTrip ==
    /\ retval = "True" =>
         LET k == CeilDiv7(Len(file_bytes)) IN
           /\ Len(trace) = k + 3
           /\ IsRts(trace[1])
           /\ IsRxCmd(trace[2], 17)
           /\ \A i \in 1..k : IsDt(trace[2 + i])
           /\ IsRxCmd(trace[k + 3], 19)
           /\ exc = "none"
    /\ pc = "exit" =>
         /\ (exitcode = 0) <=> (retval = "True")
         /\ retval # "True" => (exitcode = 1 /\ (retval = "False" \/ exc # "none"))

C1_Witness ==
    pc = "exit" /\ retval = "True" /\ Len(file_bytes) = 20 /\ DtCount = 3

(* C2: an abort frame consumed in the clear-to-send wait or in the          *)
(* completion wait ends the session as aborted (send_firmware returns       *)
(* False), and no frame is sent after it.                                   *)
C2_AbortEndsSessionNoMoreSends ==
    /\ [][ (pc \in {"wait_cts", "wait_eom"} /\ HeadIs(255) /\ Consumes)
             => /\ retval' = "False"
                /\ outcome' = "abort"
                /\ pc' = "exit"
                /\ trace' = Append(trace, RxEvent(Head(rxq))) ]_vars
    /\ [][ (\E i \in DOMAIN trace : IsRxCmd(trace[i], 255)) => trace' = trace ]_vars

C2_Witness ==
    /\ pc = "exit" /\ outcome = "abort" /\ retval = "False"
    /\ DtCount = 2
    /\ IsRxCmd(trace[Len(trace)], 255)

(* C3: every data-transfer frame sent is preceded by the send of the        *)
(* connection request and, after it, the receipt of a frame whose byte 0    *)
(* is 17.                                                                   *)
C3_NoDataBeforeClearToSend ==
    \A i \in DOMAIN trace :
        IsDt(trace[i]) =>
            \E j \in 1..(i - 1) :
                /\ IsRts(trace[j])
                /\ \E k \in (j + 1)..(i - 1) : IsRxCmd(trace[k], 17)

C3_Witness == DtCount = 2 /\ pc = "transfer"

(* C4: the data-transfer frames carry the sequence numbers 1, 2, 3, ... in  *)
(* send order, each a byte in 1..255, and a transfer that ran to its end    *)
(* sent exactly ceil(n/7) of them.                                          *)
C4_SequenceNumbers ==
    LET dt == DtFrames
        n == Len(dt)
        total == CeilDiv7(Len(file_bytes))
    IN  /\ \A i \in 1..n : dt[i].data[1] = i /\ i >= 1 /\ i <= 255
        /\ n <= total
        /\ pc = "wait_eom" => n = total

C4_Witness == pc = "wait_eom" /\ DtCount = 255 /\ DtFrames[255].data[1] = 255

(* C5: a wait whose deadline passes (50 ticks for clear-to-send, 100 for    *)
(* the completion acknowledgment) ends the session as timed out:            *)
(* send_firmware returns False, raises nothing, and after a timeout of the  *)
(* clear-to-send wait no data-transfer frame has been sent.                 *)
C5_TimeoutEndsSession ==
    /\ [](pc = "wait_cts" => elapsed <= 50)
    /\ [](pc = "wait_eom" => elapsed <= 100)
    /\ [](outcome = "timeout" => retval = "False" /\ exc = "none")
    /\ [][ ((pc = "wait_cts" /\ elapsed >= 50) \/ (pc = "wait_eom" /\ elapsed >= 100))
             => /\ trace' = trace
                /\ ~Consumes
                /\ (pc' # pc /\ exc' # "KeyboardInterrupt")
                     => /\ outcome' = "timeout"
                        /\ retval' = "False"
                        /\ exc' = "none"
                        /\ pc' = "exit"
                        /\ (pc = "wait_cts" => DtCount' = 0) ]_vars

C5_Witness ==
    /\ pc = "exit" /\ outcome = "timeout" /\ retval = "False" /\ exc = "none"
    /\ ~got_frame /\ Len(trace) = 1 /\ DtCount = 0

----------------------------------------------------------------------------
\* what main() gets back from send_firmware: a value or an exception
CallerView == <<retval, exc>>

\* the view main() gets of a session that timed out
TimeoutView == <<"False", "none">>

EmptyPayload == file_exists /\ file_bytes = << >>

LastEvent == trace[Len(trace)]

(* C6, as claimed: for a payload of more than 255 chunks the chunk count is *)
(* truncated to a byte, the connection request is built and sent, and no    *)
(* error is raised because of the chunk count.                              *)
C6_Original ==
    (num_packets > 255 /\ pc \in {"wait_cts", "transfer", "wait_eom", "exit"}
       /\ exc \notin {"KeyboardInterrupt", "CanError"})
    => /\ exc # "ValueError"
       /\ Len(trace) >= 1
       /\ IsRts(trace[1])
       /\ trace[1].data[4] = num_packets % 256

(* C6, amended: for a payload of more than 255 chunks the connection        *)
(* request is never built: bytearray() raises ValueError for the chunk      *)
(* count, no frame is sent, and send_firmware ends with that exception.     *)
C6_OversizePayloadRaises ==
    num_packets > 255 =>
        /\ trace = << >>
        /\ retval = "none"
        /\ pc \in {"send_rts", "exit"}
        /\ pc = "exit" => (exc \in {"ValueError", "KeyboardInterrupt"} /\ exitcode = 1)

C6_Witness ==
    /\ Len(file_bytes) = 255 * 7 + 1 /\ num_packets = 256
    /\ pc = "exit" /\ exc = "ValueError" /\ trace = << >>

(* C7, as claimed: a missing or empty payload is rejected before the        *)
(* session starts: send_firmware reports failure and no frame is sent.      *)
C7_Original ==
    (~file_exists \/ file_bytes = << >>) =>
        /\ trace = << >>
        /\ (pc = "exit" /\ exc = "none") => retval = "False"

(* C7, amended: a missing payload file is rejected before the session       *)
(* starts (send_firmware returns False, no frame is sent); an empty payload *)
(* is not rejected: its connection request is sent.                         *)
C7_MissingRejectedEmptyNot ==
    /\ ~file_exists =>
         /\ trace = << >>
         /\ retval # "True"
         /\ (pc = "exit" /\ exc = "none") => (retval = "False" /\ outcome = "not found")
    /\ (EmptyPayload /\ (pc \in {"wait_cts", "transfer", "wait_eom"}
                           \/ (pc = "exit" /\ exc = "none"))) =>
         /\ Len(trace) >= 1
         /\ IsRts(trace[1])
         /\ outcome # "not found"

C7_Witness ==
    EmptyPayload /\ pc = "exit" /\ outcome = "timeout" /\ Len(trace) = 1 /\ IsRts(trace[1])

(* C8: for an empty payload total_chunks is 0; the connection request       *)
(* (size 0, 0 chunks) is sent, no data-transfer frame is sent, nothing is   *)
(* raised on account of the payload, and a clear-to-send followed by a      *)
(* completion acknowledgment (8-byte frames) makes send_firmware return     *)
(* True.                                                                    *)
C8_EmptyPayloadRoundTrip ==
    /\ [](EmptyPayload =>
            /\ DtCount = 0
            /\ exc \notin {"ValueError", "ZeroDivisionError"}
            /\ pc \in {"send_rts", "wait_cts", "transfer", "wait_eom"}
                 => (num_packets = 0 /\ firmware_size = 0)
            /\ pc \in {"wait_cts", "transfer", "wait_eom"}
                 => (IsRts(trace[1]) /\ trace[1].data = <<16, 0, 0, 0, 255, 0, 239, 0>>)
            /\ retval = "True"
                 => (Len(trace) = 3 /\ IsRxCmd(trace[2], 17) /\ IsRxCmd(trace[3], 19)))
    /\ [][ (EmptyPayload /\ pc = "wait_cts" /\ HeadIs(17) /\ Len(Head(rxq)) = 8
              /\ Consumes) => pc' = "transfer" ]_vars
    /\ [][ (EmptyPayload /\ pc = "transfer" /\ pc' # pc /\ exc' # "KeyboardInterrupt")
              => (pc' = "wait_eom" /\ trace' = trace) ]_vars
    /\ [][ (EmptyPayload /\ pc = "wait_eom" /\ HeadIs(19) /\ Len(Head(rxq)) = 8
              /\ Consumes) => (retval' = "True" /\ exitcode' = 0 /\ exc' = "none") ]_vars

C8_Witness ==
    EmptyPayload /\ pc = "exit" /\ retval = "True" /\ exitcode = 0 /\ Len(trace) = 3

C10_BusAlwaysReleased ==
    /\ opens <= 1
    /\ pc = "exit" => (bus = "none" /\ shutdowns = opens)
    /\ pc # "exit" => shutdowns = 0
    /\ exc = "RuntimeError" => (opens = 0 /\ shutdowns = 0)
    /\ pc \notin {"connect", "exit"} => (bus = "open" /\ opens = 1)

C10_Witness ==
    pc = "exit" /\ exc = "CanError" /\ DtCount = 1 /\ bus = "none" /\ shutdowns = 1

(* C11: nothing is retried: at most one connection request is ever sent,    *)
(* the data-transfer frames cover strictly increasing payload offsets (no   *)
(* chunk is sent twice), and once send_firmware has returned (completed,    *)
(* aborted or timed out) no frame is sent or taken from the bus.            *)
C11_NoRetry ==
    /\ [](Cardinality({i \in DOMAIN trace : IsRts(trace[i])}) <= 1)
    /\ [](LET dt == DtFrames
          IN  /\ Len(dt) <= CeilDiv7(Len(file_bytes))
              /\ \A i \in 1..(Len(dt) - 1) : dt[i].data[1] < dt[i + 1].data[1])
    /\ [][ (pc = "transfer" /\ trace' # trace)
             => (offset' > offset /\ Len(trace') = Len(trace) + 1) ]_vars
    /\ [][ retval # "none" => (trace' = trace /\ rxq' = rxq) ]_vars

C11_Witness ==
    /\ pc = "exit" /\ outcome = "timeout" /\ retval = "False"
    /\ DtCount = 2 /\ rxq # << >>
    /\ Cardinality({i \in DOMAIN trace : IsRts(trace[i])}) = 1

C13_RtsEncoding ==
    LET n == Len(file_bytes)
        total == CeilDiv7(n)
    IN  /\ pc \in {"send_rts", "wait_cts", "transfer", "wait_eom"}
             => (firmware_size = n /\ num_packets = total)
        /\ n = 0 => total = 0
        /\ 7 * total >= n /\ 7 * total < n + 7
        /\ trace # << >> =>
             /\ IsRts(trace[1])
             /\ trace[1].data = <<16, n % 256, (n \div 256) % 256, total, 255, 0, 239, 0>>
             /\ total <= 255 =>
                  /\ trace[1].data[2] + 256 * trace[1].data[3] = n
                  /\ trace[1].data[4] = total

C13_Witness ==
    /\ Len(file_bytes) = 255 * 7 /\ pc = "wait_cts"
    /\ trace[1].data = <<16, 249, 6, 255, 255, 0, 239, 0>>

\* the bytes a receiver that knows the payload size takes from the first k
\* data-transfer frames: bytes 1..7 of each, less the padding of the last
RECURSIVE Reassemble(_, _, _)
Reassemble(dt, k, size) ==
    IF k = 0 THEN << >>
    ELSE Reassemble(dt, k - 1, size)
           \o SubSeq(dt[k].data, 2, 1 + Min(7, size - 7 * (k - 1)))

\* the i-th data-transfer frame sent carries i and the i-th 7 bytes of the
\* payload, filled up with 0xFF
FrameOk(f, i, payload) ==
    LET len == Min(7, Len(payload) - 7 * (i - 1))
    IN  /\ Len(f) = 8
        /\ f[1] = i
        /\ len >= 1
        /\ \A j \in 1..len : f[1 + j] = payload[7 * (i - 1) + j]
        /\ \A j \in (len + 2)..8 : f[j] = 255

(* C14: every data-transfer frame sent has a data block of exactly 8 bytes: *)
(* byte 0 is the sequence number, the bytes after it are the chunk's bytes, *)
(* and what is left of a final short chunk's frame is filled with 0xFF.     *)
(* The frame sent last is examined in every state, and all frames together  *)
(* when the transfer loop has just ended.                                   *)
C14_DataFrameLayout ==
    LET dt == DtFrames
        n == Len(dt)
    IN  /\ n >= 1 => FrameOk(dt[n].data, n, file_bytes)
        /\ (pc = "wait_eom" /\ elapsed = 0) =>
              \A i \in 1..n : FrameOk(dt[i].data, i, file_bytes)

C14_Witness ==
    /\ pc = "wait_eom" /\ elapsed = 0 /\ Len(file_bytes) = 20
    /\ DtFrames[3].data = <<3, 5, 42, 79, 116, 153, 190, 255>>

(* C15: chunk i is the payload's bytes [(i-1)*7, min(i*7, size)), and when  *)
(* the transfer loop has run to its end the non-padding bytes of the        *)
(* data-transfer frames, concatenated in send order, are the payload.       *)
C15_SegmenterRoundTrip ==
    LET dt == DtFrames
        size == Len(file_bytes)
    IN  /\ pc = "transfer" => offset = Min(7 * Len(dt), size)
        /\ pc \in {"transfer", "wait_eom"} /\ Len(dt) >= 1 =>
              LET i == Len(dt) IN
                SubSeq(dt[i].data, 2, 1 + Min(7 * i, size) - 7 * (i - 1))
                  = SubSeq(file_bytes, 7 * (i - 1) + 1, Min(7 * i, size))
        /\ (pc = "wait_eom" /\ elapsed = 0)
              => Reassemble(dt, Len(dt), size) = file_bytes

C15_Witness ==
    /\ pc = "wait_eom" /\ elapsed = 0 /\ Len(file_bytes) = 8 /\ file_bytes[1] = 255
    /\ DtCount = 2
    /\ Reassemble(DtFrames, 2, 8) = file_bytes

\* the number held by the bits lo .. lo + width - 1 of an identifier
Field(id, lo, width) == Val({ i - lo : i \in id \cap (lo..(lo + width - 1)) })

(* C16: the identifier build_can_id returns has the extended-frame bit      *)
(* 0x80000000 set, the priority at bit offset 26 and the source address in  *)
(* bits 0-7; when (pgn >> 8) & 0xFF is below 240, bits 8-15 are the         *)
(* destination address; otherwise they are the group number's low byte and  *)
(* the destination address has no part in the identifier.                   *)
C16_CanIdLayout ==
    pc = "id_built" =>
        /\ 31 \in can_id
        /\ can_id \subseteq 0..31
        /\ Field(can_id, 26, 3) = self_priority
        /\ Field(can_id, 0, 8) = self_src_addr
        /\ IF (arg_pgn \div 256) % 256 < 240
           THEN Field(can_id, 8, 8) = self_dst_addr
           ELSE /\ Field(can_id, 8, 8) = arg_pgn % 256
                /\ \A d \in Addresses :
                      build_can_id(self_priority, self_src_addr, d, arg_pgn) = can_id

C16_Witness ==
    /\ pc = "id_built" /\ arg_pgn = 61444 /\ self_dst_addr = 128
    /\ self_priority = 6 /\ self_src_addr = 85
    /\ Field(can_id, 8, 8) = 4

(* C17: a single clear-to-send of at least 3 data bytes starts the transfer *)
(* of the entire payload whatever its packet-count and next-sequence bytes  *)
(* are: the transfer starts at sequence number 1 and offset 0, takes no     *)
(* frame from the bus, and ends with exactly ceil(n/7) data-transfer frames *)
(* after the one clear-to-send.                                             *)
C17_WindowIgnored ==
    /\ [][ (pc = "wait_cts" /\ HeadIs(17) /\ Len(Head(rxq)) >= 3 /\ Consumes)
             => /\ pc' = "transfer"
                /\ seq_num' = 1
                /\ offset' = 0
                /\ trace' = Append(trace, RxEvent(Head(rxq))) ]_vars
    /\ [][ pc = "transfer" => ~Consumes ]_vars
    /\ [](pc = "wait_eom" =>
            LET total == CeilDiv7(Len(file_bytes)) IN
              /\ Len(trace) = 2 + total
              /\ IsRxCmd(trace[2], 17)
              /\ \A i \in 1..total : IsDt(trace[2 + i]) /\ trace[2 + i].data[1] = i)

C17_Witness ==
    /\ pc = "wait_eom" /\ Len(file_bytes) = 20 /\ DtCount = 3
    /\ IsRxCmd(trace[2], 17) /\ trace[2].data[2] = 0 /\ trace[2].data[3] = 0

(* C18: the transfer loop never takes a frame from the bus; an abort frame  *)
(* that arrives during the transfer stays in the receive buffer, the        *)
(* remaining data-transfer frames are sent all the same, and the abort ends *)
(* the session only when the completion wait consumes it.                   *)
C18_AbortDeferredToCompletionWait ==
    /\ [][ pc = "transfer"
             => (Len(rxq') >= Len(rxq) /\ SubSeq(rxq', 1, Len(rxq)) = rxq) ]_vars
    /\ [][ (pc = "transfer" /\ HeadIs(255) /\ rxq' = rxq /\ pc' # "exit")
             => IF offset < firmware_size
                THEN /\ pc' = "transfer"
                     /\ offset' > offset
                     /\ Len(trace') = Len(trace) + 1
                     /\ IsDt(trace'[Len(trace')])
                     /\ retval' = "none"
                ELSE /\ pc' = "wait_eom"
                     /\ trace' = trace
                     /\ retval' = "none" ]_vars
    /\ [][ (pc = "wait_eom" /\ HeadIs(255) /\ Consumes)
             => (pc' = "exit" /\ outcome' = "abort" /\ retval' = "False") ]_vars

C18_Witness ==
    /\ pc = "transfer" /\ HeadIs(255) /\ Len(file_bytes) = 20
    /\ DtCount = 2 /\ offset = 14 /\ retval = "none"

(* C19: in the clear-to-send wait a frame whose byte 0 is neither 17 nor    *)
(* 255 (an acknowledgment 19 included), and in the completion wait a frame  *)
(* whose byte 0 is neither 19 nor 255 (a clear-to-send 17 included), is     *)
(* consumed and dropped: nothing is sent, the session state is unchanged,   *)
(* and the wait goes on against its unchanged deadline.                     *)
C19_UnrelatedFramesDropped ==
    [][ (/\ Consumes
         /\ \/ pc = "wait_cts" /\ ~HeadIs(17) /\ ~HeadIs(255)
            \/ pc = "wait_eom" /\ ~HeadIs(19) /\ ~HeadIs(255))
          => /\ pc' = pc
             /\ trace' = trace
             /\ elapsed' >= elapsed
             /\ elapsed' <= (IF pc = "wait_cts" THEN 50 ELSE 100)
             /\ <<retval, outcome, exc, exitcode, bus, shutdowns>>'
                  = <<retval, outcome, exc, exitcode, bus, shutdowns>>
             /\ <<firmware_size, num_packets, seq_num, offset>>'
                  = <<firmware_size, num_packets, seq_num, offset>> ]_vars

C19_Witness ==
    /\ pc = "wait_eom" /\ got_frame /\ elapsed = 0 /\ rxq = << >>
    /\ Len(file_bytes) = 20 /\ DtCount = 3 /\ Len(trace) = 5

(* C20, as claimed: handling a received frame of 0 to 8 data bytes in a     *)
(* wait never raises; a frame with byte 0 = 17 and fewer than 3 data bytes, *)
(* or byte 0 = 19 and fewer than 4, is ignored or answered by True / False. *)
C20_NoFaultOnAnyFrame ==
    (trace # << >> /\ LastEvent.dir = "rx" /\ Len(LastEvent.data) <= 8)
        => exc # "IndexError"

====
